---- MODULE Spec2Model ----
(***************************************************************************)
(* A model of the LFU cache of src/src/lib.rs: the entry table `values`,   *)
(* the frequency index `frequency_bin` (count -> LinkedHashSet of keys),   *)
(* the fixed `capacity` and the cached `min_frequency`.                    *)
(*                                                                         *)
(* Option<T> is modelled as a sequence: None is <<>>, Some(x) is <<x>>.    *)
(* A LinkedHashSet<K> is a sequence of keys without duplicates, front      *)
(* first.  A HashMap is a function whose DOMAIN is the set of its keys.    *)
(* An `unwrap` on None is a panic: the operation stops where it is and the *)
(* program does nothing more (`panicked`).                                 *)
(***************************************************************************)
EXTENDS Integers, Sequences, FiniteSets, TLC

\* Bounds of the model.
MaxKey == 3
MaxCapacity == 2
\* No key is bumped past this count (usize does not overflow in practice).
MaxCount == 2

Keys == 1..MaxKey
\* V is a type parameter without any bound (impl<K: Hash + Eq + Clone, V>):
\* the cache stores, moves and returns values and never inspects one, so two
\* distinct values show every way a value can be kept, lost or mixed up.
Values == {"a", "b"}

VARIABLES
    values,         \* HashMap<K, ValueCounter<V>>: key -> [value, count]
    frequency_bin,  \* HashMap<usize, LinkedHashSet<K>>: count -> keys, oldest first
    capacity,       \* usize, fixed at construction
    min_frequency,  \* usize
    panicked,       \* an unwrap failed: the program has aborted
    lastOp,         \* the last call made: its name, arguments, result, keys it evicted
    touched         \* history: the present keys, by their last set or successful
                    \* get/get_mut, oldest first

vars == <<values, frequency_bin, capacity, min_frequency, panicked, lastOp, touched>>

\* The cache object as one record, so that an operation is a function of it.
self ==
    [values |-> values, frequency_bin |-> frequency_bin, capacity |-> capacity,
     min_frequency |-> min_frequency, panicked |-> panicked]

None == <<>>
Some(x) == <<x>>

--------------------------------------------------------------------------
\* LinkedHashSet and HashMap operations used by the cache.

\* LinkedHashSet::remove: drops the key, keeps the order of the others.
LhsRemove(set, key) == SelectSeq(set, LAMBDA x : x # key)

\* LinkedHashSet::insert: the key goes to the back (a key already in the set
\* is moved to the back).
LhsInsert(set, key) == Append(LhsRemove(set, key), key)

\* HashMap::entry(k).or_default(): the map with an empty set at k if it had none.
EntryOrDefault(bins, count) ==
    IF count \in DOMAIN bins THEN bins ELSE bins @@ (count :> <<>>)

\* HashMap::remove.
MapRemove(map, key) == [k \in DOMAIN map \ {key} |-> map[k]]

\* LFUCache::len.
CacheLen(c) == Cardinality(DOMAIN c.values)

--------------------------------------------------------------------------
\* The private helpers.

\* A frequency bump that gives a missing key a place in bin 1.
UpdateFrequencyBinAbsentInserts(c, key) ==
    IF key \notin DOMAIN c.values
    THEN LET bins == EntryOrDefault(c.frequency_bin, 1)
         IN  [c EXCEPT !.frequency_bin = [bins EXCEPT ![1] = LhsInsert(bins[1], key)]]
    ELSE LET count == c.values[key].count
             bin   == LhsRemove(c.frequency_bin[count], key)
             bins0 == [c.frequency_bin EXCEPT ![count] = bin]
             bins1 == EntryOrDefault(bins0, count + 1)
         IN  [c EXCEPT !.values[key].count = count + 1,
                       !.min_frequency =
                           IF count = c.min_frequency /\ bin = <<>>
                           THEN c.min_frequency + 1 ELSE c.min_frequency,
                       !.frequency_bin =
                           [bins1 EXCEPT ![count + 1] = LhsInsert(bins1[count + 1], key)]]

\* A frequency bump that never advances min_frequency.
UpdateFrequencyBinKeepsMin(c, key) ==
    IF key \notin DOMAIN c.values THEN c
    ELSE LET count == c.values[key].count
             bins0 == [c.frequency_bin EXCEPT ![count] = LhsRemove(@, key)]
             bins1 == EntryOrDefault(bins0, count + 1)
         IN  [c EXCEPT !.values[key].count = count + 1,
                       !.frequency_bin =
                           [bins1 EXCEPT ![count + 1] = LhsInsert(bins1[count + 1], key)]]

\* A frequency bump that puts the key at the front of its new bin.
UpdateFrequencyBinPushFront(c, key) ==
    IF key \notin DOMAIN c.values THEN c
    ELSE LET count == c.values[key].count
             bin   == LhsRemove(c.frequency_bin[count], key)
             bins0 == [c.frequency_bin EXCEPT ![count] = bin]
             bins1 == EntryOrDefault(bins0, count + 1)
         IN  [c EXCEPT !.values[key].count = count + 1,
                       !.min_frequency =
                           IF count = c.min_frequency /\ bin = <<>>
                           THEN c.min_frequency + 1 ELSE c.min_frequency,
                       !.frequency_bin =
                           [bins1 EXCEPT ![count + 1] =
                               <<key>> \o LhsRemove(bins1[count + 1], key)]]

\* A frequency bump that advances min_frequency whenever the key leaves the
\* bin at min_frequency, empty or not.
UpdateFrequencyBinAlwaysAdvances(c, key) ==
    IF key \notin DOMAIN c.values THEN c
    ELSE LET count == c.values[key].count
             bin   == LhsRemove(c.frequency_bin[count], key)
             bins0 == [c.frequency_bin EXCEPT ![count] = bin]
             bins1 == EntryOrDefault(bins0, count + 1)
         IN  [c EXCEPT !.values[key].count = count + 1,
                       !.min_frequency =
                           IF count = c.min_frequency
                           THEN c.min_frequency + 1 ELSE c.min_frequency,
                       !.frequency_bin =
                           [bins1 EXCEPT ![count + 1] = LhsInsert(bins1[count + 1], key)]]

\* update_frequency_bin: a present key moves from the bin of its count to the
\* back of the next bin; min_frequency advances when the key leaves the bin at
\* min_frequency empty.  An absent key changes nothing.
UpdateFrequencyBin(c, key) ==
    IF key \notin DOMAIN c.values THEN c
    ELSE LET count == c.values[key].count
         IN  IF count \notin DOMAIN c.frequency_bin
             THEN [c EXCEPT !.panicked = TRUE]
             ELSE LET bin   == LhsRemove(c.frequency_bin[count], key)
                      bins0 == [c.frequency_bin EXCEPT ![count] = bin]
                      bins1 == EntryOrDefault(bins0, count + 1)
                  IN  [c EXCEPT !.values[key].count = count + 1,
                                !.min_frequency =
                                    IF count = c.min_frequency /\ bin = <<>>
                                    THEN c.min_frequency + 1 ELSE c.min_frequency,
                                !.frequency_bin =
                                    [bins1 EXCEPT ![count + 1] =
                                        LhsInsert(bins1[count + 1], key)]]

\* An eviction that takes the front of the highest non-empty bin.
EvictMostFrequent(c) ==
    LET full == {f \in DOMAIN c.frequency_bin : c.frequency_bin[f] # <<>>}
    IN  IF full = {} THEN [c EXCEPT !.panicked = TRUE]
        ELSE LET top == CHOOSE f \in full : \A g \in full : g <= f
                 bin == c.frequency_bin[top]
             IN  [c EXCEPT !.frequency_bin[top] = Tail(bin),
                           !.values = MapRemove(c.values, Head(bin))]

\* An eviction that drops the key from the entry table and leaves it in its bin.
EvictLeavesBin(c) ==
    IF c.min_frequency \notin DOMAIN c.frequency_bin
       \/ c.frequency_bin[c.min_frequency] = <<>>
    THEN [c EXCEPT !.panicked = TRUE]
    ELSE [c EXCEPT !.values = MapRemove(c.values, Head(c.frequency_bin[c.min_frequency]))]

\* evict: pops the front of the bin at min_frequency and drops that key from
\* the entry table.  Both unwraps panic: no bin at min_frequency, or an empty one.
Evict(c) ==
    IF c.min_frequency \notin DOMAIN c.frequency_bin
    THEN [c EXCEPT !.panicked = TRUE]
    ELSE LET least_frequently_used_keys == c.frequency_bin[c.min_frequency]
         IN  IF least_frequently_used_keys = <<>>
             THEN [c EXCEPT !.panicked = TRUE]
             ELSE LET least_recently_used == Head(least_frequently_used_keys)
                  IN  [c EXCEPT !.frequency_bin[c.min_frequency] =
                                    Tail(least_frequently_used_keys),
                                !.values = MapRemove(c.values, least_recently_used)]

--------------------------------------------------------------------------
\* The public operations, as functions of the cache.  Those that return
\* something give [cache, ret].

\* The insertion of a new key: count 1, min_frequency 1, back of bin 1.
InsertNew(c, key, value) ==
    LET bins == EntryOrDefault(c.frequency_bin, 1)
    IN  [c EXCEPT !.values = c.values @@ (key :> [value |-> value, count |-> 1]),
                  !.min_frequency = 1,
                  !.frequency_bin = [bins EXCEPT ![1] = LhsInsert(bins[1], key)]]

\* A set that never evicts.
SetNoEvict(c, key, value) ==
    IF key \in DOMAIN c.values
    THEN UpdateFrequencyBin([c EXCEPT !.values[key].value = value], key)
    ELSE InsertNew(c, key, value)

\* A set that inserts the new key first and evicts afterwards.
SetEvictAfterInsert(c, key, value) ==
    IF key \in DOMAIN c.values
    THEN UpdateFrequencyBin([c EXCEPT !.values[key].value = value], key)
    ELSE LET inserted == InsertNew(c, key, value)
         IN  IF CacheLen(inserted) > c.capacity THEN Evict(inserted) ELSE inserted

\* A set that makes room before it looks the key up.
SetEvictsOnUpdate(c, key, value) ==
    LET evicted == IF CacheLen(c) >= c.capacity THEN Evict(c) ELSE c
    IN  IF evicted.panicked THEN evicted
        ELSE IF key \in DOMAIN evicted.values
             THEN UpdateFrequencyBin([evicted EXCEPT !.values[key].value = value], key)
             ELSE InsertNew(evicted, key, value)

\* A set that gives a present key its new value without a frequency bump.
SetUpdateNoBump(c, key, value) ==
    IF key \in DOMAIN c.values
    THEN [c EXCEPT !.values[key].value = value]
    ELSE LET evicted == IF CacheLen(c) >= c.capacity THEN Evict(c) ELSE c
         IN  IF evicted.panicked THEN evicted
             ELSE InsertNew(evicted, key, value)

\* set: a present key gets the value and a frequency bump; a new key is
\* inserted after an eviction when the cache is full.
Set(c, key, value) ==
    IF key \in DOMAIN c.values
    THEN UpdateFrequencyBin([c EXCEPT !.values[key].value = value], key)
    ELSE LET evicted == IF CacheLen(c) >= c.capacity THEN Evict(c) ELSE c
         IN  IF evicted.panicked THEN evicted
             ELSE InsertNew(evicted, key, value)

\* get: the frequency bump, then the lookup.
Get(c, key) ==
    LET bumped == UpdateFrequencyBin(c, key)
    IN  [cache |-> bumped,
         ret   |-> IF key \in DOMAIN bumped.values /\ ~bumped.panicked
                   THEN Some(bumped.values[key].value) ELSE None]

\* get_mut: as get; `write` is what the caller stores through the returned
\* reference (None: nothing).
GetMut(c, key, write) ==
    LET bumped == UpdateFrequencyBin(c, key)
        found  == key \in DOMAIN bumped.values /\ ~bumped.panicked
    IN  [cache |-> IF found /\ write # None
                   THEN [bumped EXCEPT !.values[key].value = write[1]]
                   ELSE bumped,
         ret   |-> IF found THEN Some(bumped.values[key].value) ELSE None]

\* A remove that leaves the key in its frequency bin.
RemoveLeavesBin(c, key) ==
    IF key \in DOMAIN c.values
    THEN [cache |-> [c EXCEPT !.values = MapRemove(c.values, key)],
          ret   |-> Some(c.values[key].value)]
    ELSE [cache |-> c, ret |-> None]

\* remove: a present key leaves its bin and the entry table; min_frequency is
\* left as it is.
Remove(c, key) ==
    IF key \in DOMAIN c.values
    THEN LET count == c.values[key].count
             bins  == EntryOrDefault(c.frequency_bin, count)
         IN  [cache |-> [c EXCEPT !.frequency_bin =
                                      [bins EXCEPT ![count] = LhsRemove(bins[count], key)],
                                  !.values = MapRemove(c.values, key)],
              ret   |-> Some(c.values[key].value)]
    ELSE [cache |-> c, ret |-> None]

\* A peek that pops the key it returns.
PeekLfuKeyPops(c) ==
    IF c.min_frequency \notin DOMAIN c.frequency_bin
    THEN [cache |-> [c EXCEPT !.panicked = TRUE], ret |-> None]
    ELSE LET least_frequently_used_keys == c.frequency_bin[c.min_frequency]
         IN  IF least_frequently_used_keys = <<>> THEN [cache |-> c, ret |-> None]
             ELSE [cache |-> [c EXCEPT !.frequency_bin[c.min_frequency] =
                                           Tail(least_frequently_used_keys)],
                   ret   |-> Some(Head(least_frequently_used_keys))]

\* A peek that looks at the back of the bin at min_frequency.
PeekLfuKeyBack(c) ==
    IF c.min_frequency \notin DOMAIN c.frequency_bin
    THEN [cache |-> [c EXCEPT !.panicked = TRUE], ret |-> None]
    ELSE LET least_frequently_used_keys == c.frequency_bin[c.min_frequency]
         IN  [cache |-> c,
              ret   |-> IF least_frequently_used_keys = <<>> THEN None
                        ELSE Some(least_frequently_used_keys[Len(least_frequently_used_keys)])]

\* peek_lfu_key: the front of the bin at min_frequency, None when that bin is
\* empty; the unwrap panics when there is no bin at min_frequency.
PeekLfuKey(c) ==
    IF c.min_frequency \notin DOMAIN c.frequency_bin
    THEN [cache |-> [c EXCEPT !.panicked = TRUE], ret |-> None]
    ELSE LET least_frequently_used_keys == c.frequency_bin[c.min_frequency]
         IN  [cache |-> c,
              ret   |-> IF least_frequently_used_keys = <<>> THEN None
                        ELSE Some(Head(least_frequently_used_keys))]

\* A construction that turns capacity 0 into capacity 1.
WithCapacityClamps(n) ==
    [values |-> <<>>, frequency_bin |-> <<>>, capacity |-> IF n = 0 THEN 1 ELSE n,
     min_frequency |-> 0, panicked |-> FALSE]

\* with_capacity: capacity 0 panics and there is no cache; otherwise an empty
\* cache of that capacity with min_frequency 0.
WithCapacity(n) ==
    [values |-> <<>>, frequency_bin |-> <<>>, capacity |-> n, min_frequency |-> 0,
     panicked |-> (n = 0)]

\* contains, is_empty (len is CacheLen): they take &self and read `values`.
Contains(c, key) == key \in DOMAIN c.values
IsEmpty(c) == DOMAIN c.values = {}

\* An indexed access that is a get: it bumps the key.
IndexBumps(c, key) ==
    IF key \in DOMAIN c.values
    THEN [cache |-> UpdateFrequencyBin(c, key), ret |-> Some(c.values[key].value)]
    ELSE [cache |-> [c EXCEPT !.panicked = TRUE], ret |-> None]

\* An indexed access that gives nothing for a missing key.
IndexOrNone(c, key) ==
    [cache |-> c,
     ret   |-> IF key \in DOMAIN c.values THEN Some(c.values[key].value) ELSE None]

\* Index::index: self.values.get(..).map(|x| &x.value).unwrap(): the value of a
\* present key, a panic for a missing one.  It takes &self: nothing is bumped.
Index(c, key) ==
    IF key \in DOMAIN c.values
    THEN [cache |-> c, ret |-> Some(c.values[key].value)]
    ELSE [cache |-> [c EXCEPT !.panicked = TRUE], ret |-> None]

\* The orders in which a HashMap may hand out the keys of `map`: the order is
\* not specified, each key comes once.
IterationOrders(map) ==
    {order \in [1..Cardinality(DOMAIN map) -> DOMAIN map] :
         \A i, j \in DOMAIN order : order[i] = order[j] => i = j}

\* An iteration that loses the first entry.
IterSkipsFirst(c, order) ==
    [i \in 1..(Len(order) - 1) |-> <<order[i + 1], c.values[order[i + 1]].value>>]

\* LfuIterator::next over values.iter(): each (key, entry) of the map, in the
\* map's order, as (key, value).
Iter(c, order) == [i \in 1..Len(order) |-> <<order[i], c.values[order[i]].value>>]

\* LfuConsumer::next over values.into_iter(): the same pairs, moved out of the
\* cache, which is gone afterwards.
IntoIter(c, order) ==
    [cache |-> [c EXCEPT !.values = <<>>, !.frequency_bin = <<>>],
     ret   |-> [i \in 1..Len(order) |-> <<order[i], c.values[order[i]].value>>]]

--------------------------------------------------------------------------
\* The state machine.

\* The history of touches after a call: the keys still present keep their
\* order, and a touched key that is present goes to the back.
\* `hit` is Some(key) for a call that reads or writes that key, else None.
Touch(order, present, hit) ==
    LET kept == SelectSeq(order, LAMBDA x : x \in present /\ Some(x) # hit)
    IN  IF hit # None /\ hit[1] \in present THEN Append(kept, hit[1]) ELSE kept

\* The variables of the cache after an operation.
Becomes(c) ==
    /\ values' = c.values
    /\ frequency_bin' = c.frequency_bin
    /\ capacity' = c.capacity
    /\ min_frequency' = c.min_frequency
    /\ panicked' = c.panicked

\* with_capacity(n): the cache it builds, or the panic for n = 0.
Init ==
    \E n \in 0..MaxCapacity :
        LET c == WithCapacity(n)
        IN  /\ values = c.values
            /\ frequency_bin = c.frequency_bin
            /\ capacity = c.capacity
            /\ min_frequency = c.min_frequency
            /\ panicked = c.panicked
            /\ lastOp = [op |-> "with_capacity", args |-> <<n>>, ret |-> None,
                         evicted |-> {}]
            /\ touched = <<>>

\* A call needs a cache: no panic has happened, and the cache has not been
\* moved into a consuming iteration.
Usable == ~panicked /\ lastOp.op # "into_iter"

\* The model stops bumping a key at MaxCount.
CanBump(key) == IF key \in DOMAIN values THEN values[key].count < MaxCount ELSE TRUE

SetOp(key, value) ==
    /\ Usable
    /\ CanBump(key)
    /\ LET c == Set(self, key, value)
       IN  /\ Becomes(c)
           /\ lastOp' = [op |-> "set", args |-> <<key, value>>, ret |-> None,
                         evicted |-> DOMAIN values \ DOMAIN c.values]
           /\ touched' = Touch(touched, DOMAIN c.values, Some(key))

GetOp(key) ==
    /\ Usable
    /\ CanBump(key)
    /\ LET r == Get(self, key)
       IN  /\ Becomes(r.cache)
           /\ lastOp' = [op |-> "get", args |-> <<key>>, ret |-> r.ret, evicted |-> {}]
           /\ touched' = Touch(touched, DOMAIN r.cache.values, Some(key))

GetMutOp(key, write) ==
    /\ Usable
    /\ CanBump(key)
    /\ LET r == GetMut(self, key, write)
       IN  /\ Becomes(r.cache)
           /\ lastOp' = [op |-> "get_mut", args |-> <<key>>, ret |-> r.ret,
                         evicted |-> {}]
           /\ touched' = Touch(touched, DOMAIN r.cache.values, Some(key))

RemoveOp(key) ==
    /\ Usable
    /\ LET r == Remove(self, key)
       IN  /\ Becomes(r.cache)
           /\ lastOp' = [op |-> "remove", args |-> <<key>>, ret |-> r.ret,
                         evicted |-> {}]
           /\ touched' = Touch(touched, DOMAIN r.cache.values, None)

PeekLfuKeyOp ==
    /\ Usable
    /\ LET r == PeekLfuKey(self)
       IN  /\ Becomes(r.cache)
           /\ lastOp' = [op |-> "peek_lfu_key", args |-> <<>>, ret |-> r.ret,
                         evicted |-> {}]
           /\ touched' = Touch(touched, DOMAIN r.cache.values, None)

Next ==
    \/ \E key \in Keys, value \in Values : SetOp(key, value)
    \/ \E key \in Keys : GetOp(key)
    \/ \E key \in Keys, write \in {None} \cup {Some(v) : v \in Values} : GetMutOp(key, write)
    \/ \E key \in Keys : RemoveOp(key)
    \/ PeekLfuKeyOp

Spec == Init /\ [][Next]_vars

\* The operations that take &self, and the consuming iteration.

ContainsOp(key) ==
    /\ Usable
    /\ Becomes(self)
    /\ lastOp' = [op |-> "contains", args |-> <<key>>, ret |-> Some(Contains(self, key)),
                  evicted |-> {}]
    /\ UNCHANGED touched

LenOp ==
    /\ Usable
    /\ Becomes(self)
    /\ lastOp' = [op |-> "len", args |-> <<>>, ret |-> Some(CacheLen(self)),
                  evicted |-> {}]
    /\ UNCHANGED touched

IsEmptyOp ==
    /\ Usable
    /\ Becomes(self)
    /\ lastOp' = [op |-> "is_empty", args |-> <<>>, ret |-> Some(IsEmpty(self)),
                  evicted |-> {}]
    /\ UNCHANGED touched

IterOp ==
    /\ Usable
    /\ \E order \in IterationOrders(values) :
           lastOp' = [op |-> "iter", args |-> <<>>, ret |-> Iter(self, order),
                      evicted |-> {}]
    /\ Becomes(self)
    /\ UNCHANGED touched

IntoIterOp ==
    /\ Usable
    /\ \E order \in IterationOrders(values) :
           LET r == IntoIter(self, order)
           IN  /\ Becomes(r.cache)
               /\ lastOp' = [op |-> "into_iter", args |-> <<>>, ret |-> r.ret,
                             evicted |-> {}]
    /\ touched' = <<>>

IndexOp(key) ==
    /\ Usable
    /\ LET r == Index(self, key)
       IN  /\ Becomes(r.cache)
           /\ lastOp' = [op |-> "index", args |-> <<key>>, ret |-> r.ret,
                         evicted |-> {}]
    /\ UNCHANGED touched

NextAll ==
    \/ Next
    \/ \E key \in Keys : ContainsOp(key)
    \/ LenOp
    \/ IsEmptyOp
    \/ IterOp
    \/ IntoIterOp
    \/ \E key \in Keys : IndexOp(key)

SpecAll == Init /\ [][NextAll]_vars

--------------------------------------------------------------------------
\* Helpers of the properties.

\* The position of a present key in the history of touches.
Pos(order, key) == CHOOSE i \in 1..Len(order) : order[i] = key

\* The keys a step takes out of the entry table.
Gone == DOMAIN values \ DOMAIN values'

\* The fields of the cache the step leaves as they were.
CacheUnchanged == UNCHANGED <<values, frequency_bin, capacity, min_frequency, panicked>>

--------------------------------------------------------------------------
\* C1 - Capacity bound: after every completed set, get, get_mut, remove or
\* peek_lfu_key, the number of entries is at most the capacity.
CapacityBound == Cardinality(DOMAIN values) <= capacity

\* A set has just evicted a key from a cache of capacity above one, which is full.
CapacityBoundWitness ==
    /\ lastOp.op = "set" /\ lastOp.evicted # {}
    /\ capacity > 1
    /\ Cardinality(DOMAIN values) = capacity

\* C2 - set never aborts in eviction: no set ends in a panic, and whenever the
\* cache is full (so that a set of a new key would evict) there is a bin at
\* min_frequency and it is not empty, also after removes that emptied the bin
\* at min_frequency.
EvictNeverAborts ==
    /\ lastOp.op = "set" => ~panicked
    /\ (~panicked /\ Cardinality(DOMAIN values) >= capacity) =>
           /\ min_frequency \in DOMAIN frequency_bin
           /\ frequency_bin[min_frequency] # <<>>

\* A set has evicted a key without a panic, in a cache where some bin has
\* been left empty.
EvictNeverAbortsWitness ==
    /\ lastOp.op = "set" /\ lastOp.evicted # {}
    /\ ~panicked
    /\ \E f \in DOMAIN frequency_bin : frequency_bin[f] = <<>>

\* C3 - LFU eviction: the key a set evicts has the smallest count among the
\* entries present just before the call.
LfuEviction ==
    [][lastOp'.op = "set" =>
           \A e \in Gone : \A j \in DOMAIN values : values[e].count <= values[j].count]_vars

\* A set has evicted a key and left an older key whose count is above 1.
LfuEvictionWitness ==
    /\ lastOp.op = "set" /\ lastOp.evicted # {}
    /\ \E j \in DOMAIN values : j # lastOp.args[1] /\ values[j].count > 1

\* C4 - Tie-break: among the entries tied with the evicted key at its count,
\* the evicted key is the one whose last set or successful get/get_mut is the
\* oldest.
TieBreak ==
    [][lastOp'.op = "set" =>
           \A e \in Gone : \A j \in DOMAIN values :
               values[j].count = values[e].count => Pos(touched, e) <= Pos(touched, j)]_vars

\* A set has evicted a key of count 1 and left another key of count 1 that
\* was in the cache before it: the two were tied.
TieBreakWitness ==
    /\ lastOp.op = "set" /\ lastOp.evicted # {}
    /\ \E j \in DOMAIN values : j # lastOp.args[1] /\ values[j].count = 1

\* C5 - Value round-trip: after set(k, v), in a full cache or not, for a new
\* key or a present one, a get(k) made at once returns v.
RoundTrip ==
    lastOp.op = "set" =>
        /\ ~panicked
        /\ Get(self, lastOp.args[1]).ret = Some(lastOp.args[2])

\* A set of a new key has evicted a key of a full cache and the new key is
\* alone in bin 1, the bin an eviction takes from; get returns its value.
RoundTripWitness ==
    /\ lastOp.op = "set" /\ lastOp.evicted # {}
    /\ frequency_bin[1] = <<lastOp.args[1]>>
    /\ Get(self, lastOp.args[1]).ret = Some(lastOp.args[2])

\* C6 - peek_lfu_key returns the eviction candidate: with at least one
\* entry in the cache, it returns a present key whose count is the minimum
\* over the entries and which is the oldest of its tier.
PeekReturnsLfu ==
    (lastOp.op = "peek_lfu_key" /\ DOMAIN values # {}) =>
        /\ ~panicked
        /\ lastOp.ret # None
        /\ LET k == lastOp.ret[1]
           IN  /\ k \in DOMAIN values
               /\ \A j \in DOMAIN values :
                      /\ values[k].count <= values[j].count
                      /\ values[j].count = values[k].count =>
                             Pos(touched, k) <= Pos(touched, j)

\* C7 - peek_lfu_key never aborts when there is nothing to return: on a
\* cache with no entries, fresh or emptied by removes, it returns None.
PeekOnEmptyReturnsNothing ==
    (lastOp.op = "peek_lfu_key" /\ DOMAIN values = {}) =>
        /\ ~panicked
        /\ lastOp.ret = None

\* C8 - Absent-key operations are no-ops: get, get_mut and remove of a key
\* that is not in the cache return None and leave every field of the cache
\* as it was.
AbsentKeyNoOp ==
    [][(lastOp'.op \in {"get", "get_mut", "remove"} /\ lastOp'.args[1] \notin DOMAIN values) =>
           /\ lastOp'.ret = None
           /\ CacheUnchanged]_vars

\* A get of an absent key has returned None on a cache that holds entries.
AbsentKeyNoOpWitness ==
    /\ lastOp.op = "get" /\ lastOp.ret = None
    /\ DOMAIN values # {}
    /\ ~panicked

\* C9 - remove(k) of a present key returns its value, takes k out of the
\* entry table and out of its bin, and changes nothing else: the other
\* entries, the order of the other keys in every bin, the set of bins,
\* min_frequency and the capacity stay, and no other key leaves.
RemoveFrame ==
    [][(lastOp'.op = "remove" /\ lastOp'.args[1] \in DOMAIN values) =>
           LET k == lastOp'.args[1]
           IN  /\ lastOp'.ret = Some(values[k].value)
               /\ DOMAIN values' = DOMAIN values \ {k}
               /\ \A j \in DOMAIN values' : values'[j] = values[j]
               /\ DOMAIN frequency_bin' = DOMAIN frequency_bin
               /\ \A f \in DOMAIN frequency_bin :
                      /\ f # values[k].count => frequency_bin'[f] = frequency_bin[f]
                      /\ f = values[k].count =>
                             frequency_bin'[f] =
                                 SelectSeq(frequency_bin[f], LAMBDA x : x # k)
               /\ \A f \in DOMAIN frequency_bin' :
                      \A i \in 1..Len(frequency_bin'[f]) : frequency_bin'[f][i] # k
               /\ min_frequency' = min_frequency
               /\ capacity' = capacity
               /\ ~panicked']_vars

\* A remove has returned a value and left other entries behind, with the bin
\* at min_frequency empty: min_frequency was not adjusted.
RemoveFrameWitness ==
    /\ lastOp.op = "remove" /\ lastOp.ret # None
    /\ DOMAIN values # {}
    /\ frequency_bin[min_frequency] = <<>>

\* C10 - A key leaves the cache only by a remove of that key, or as the one
\* victim of a set of a new key made while len() = capacity.  A set of a
\* present key, a set of a new key below capacity, a get and a get_mut take
\* no entry out.
OnlyTwoWaysOut ==
    [][Gone # {} =>
           \/ lastOp'.op = "remove" /\ Gone = {lastOp'.args[1]}
           \/ /\ lastOp'.op = "set"
              /\ lastOp'.args[1] \notin DOMAIN values
              /\ Cardinality(DOMAIN values) = capacity
              /\ Cardinality(Gone) = 1]_vars

\* A set of a present key on a full cache has evicted nothing.
OnlyTwoWaysOutWitness ==
    /\ lastOp.op = "set" /\ lastOp.evicted = {}
    /\ Cardinality(DOMAIN values) = capacity
    /\ values[lastOp.args[1]].count > 1

\* C11 - Frequency transitions: a key enters the cache with count 1; a key
\* that stays over a call keeps its count or gains exactly 1, and it gains 1
\* exactly when the call is a get, a get_mut or a set of that key.  No call
\* lowers the count of a present key.
FrequencyTransitions ==
    [][/\ \A k \in DOMAIN values' \ DOMAIN values : values'[k].count = 1
       /\ \A k \in DOMAIN values \cap DOMAIN values' :
              /\ values'[k].count \in {values[k].count, values[k].count + 1}
              /\ (values'[k].count = values[k].count + 1) <=>
                     (/\ lastOp'.op \in {"get", "get_mut", "set"}
                      /\ lastOp'.args[1] = k)]_vars

\* A get_mut has found its key and left it at count 2, beside another key
\* that is still at count 1.
FrequencyTransitionsWitness ==
    /\ lastOp.op = "get_mut" /\ lastOp.ret # None
    /\ values[lastOp.args[1]].count = 2
    /\ \E j \in DOMAIN values : values[j].count = 1

\* The number of places, over all bins, at which a key stands.
Places(bins, key) ==
    Cardinality({<<f, i>> \in (DOMAIN bins) \X (1..MaxKey) :
                     i <= Len(bins[f]) /\ bins[f][i] = key})

\* C18 - Index consistency: after every call a key is in the entry table if
\* and only if it stands in a bin, a present key stands at exactly one place,
\* and that place is in the bin of the key's count.
IndexConsistency ==
    \A k \in Keys :
        IF k \in DOMAIN values
        THEN /\ Places(frequency_bin, k) = 1
             /\ values[k].count \in DOMAIN frequency_bin
             /\ \E i \in 1..Len(frequency_bin[values[k].count]) :
                    frequency_bin[values[k].count][i] = k
        ELSE Places(frequency_bin, k) = 0

\* A set has evicted a key, and the keys now present stand in two bins.
IndexConsistencyWitness ==
    /\ lastOp.op = "set" /\ lastOp.evicted # {}
    /\ Cardinality({values[k].count : k \in DOMAIN values}) = 2
    /\ \A e \in lastOp.evicted : Places(frequency_bin, e) = 0

\* C19 - peek agrees with eviction: in a full cache peek_lfu_key returns a
\* key, and a set of any new key made next evicts exactly that key.
PeekAgreesWithEviction ==
    (~panicked /\ Cardinality(DOMAIN values) = capacity) =>
        LET peek == PeekLfuKey(self)
        IN  /\ ~peek.cache.panicked
            /\ peek.ret # None
            /\ \A key \in Keys \ DOMAIN values : \A value \in Values :
                   DOMAIN values \ DOMAIN Set(peek.cache, key, value).values = {peek.ret[1]}

\* peek_lfu_key has returned a key of a full cache of more than one entry,
\* all at the same count.
PeekAgreesWithEvictionWitness ==
    /\ lastOp.op = "peek_lfu_key" /\ lastOp.ret # None
    /\ capacity > 1
    /\ Cardinality(DOMAIN values) = capacity
    /\ Cardinality({values[k].count : k \in DOMAIN values}) = 1

\* C20 - min_frequency is never too high: with an entry in the cache,
\* min_frequency is at most the count of every present key, and right after
\* the set of a new key (the key is at count 1) it is 1.
MinFrequencyNotTooHigh ==
    /\ \A k \in DOMAIN values : min_frequency <= values[k].count
    /\ (lastOp.op = "set" /\ ~panicked /\ values[lastOp.args[1]].count = 1) =>
           min_frequency = 1

\* A get has bumped a key out of bin 1 while another key stays in it:
\* min_frequency has not moved past the tier that still holds a key.
MinFrequencyNotTooHighWitness ==
    /\ lastOp.op = "get" /\ lastOp.ret # None
    /\ min_frequency = 1
    /\ values[lastOp.args[1]].count = 2
    /\ \E j \in DOMAIN values : values[j].count = 1

\* C12 - as stated: for a present key, cache[k] returns what get(k) returns
\* and leaves the cache in the state get(k) leaves, the bump of k included.
IndexEquivalentToGet ==
    Usable => \A k \in DOMAIN values : Index(self, k) = Get(self, k)

\* C12 - as amended: for a present key, cache[k] returns the value get(k)
\* returns and leaves the cache as it was: the count of k, its bin and
\* min_frequency do not move.
IndexReadsWithoutBump ==
    [][(lastOp'.op = "index" /\ lastOp'.args[1] \in DOMAIN values) =>
           /\ lastOp'.ret = Get(self, lastOp'.args[1]).ret
           /\ CacheUnchanged]_vars

\* An indexed access has returned the value of a key that is still at count
\* 1 and at the front of bin 1, the next key to be evicted, in a full cache.
IndexReadsWithoutBumpWitness ==
    /\ lastOp.op = "index" /\ lastOp.ret # None
    /\ Cardinality(DOMAIN values) = capacity
    /\ min_frequency = 1
    /\ Head(frequency_bin[1]) = lastOp.args[1]

\* C13 - cache[k] returns the value now stored for k when k is present, and
\* panics when k is absent: it never gives an empty or default result.
IndexPresentOrPanic ==
    lastOp.op = "index" =>
        IF lastOp.args[1] \in DOMAIN values
        THEN ~panicked /\ lastOp.ret = Some(values[lastOp.args[1]].value)
        ELSE panicked

\* An indexed access of a missing key has panicked on a cache that holds
\* another key.
IndexPresentOrPanicWitness ==
    /\ lastOp.op = "index" /\ panicked
    /\ DOMAIN values # {}
    /\ lastOp.args[1] \notin DOMAIN values

\* C14 - Queries are side-effect free: contains, len, is_empty, iter and
\* peek_lfu_key leave the entries, their values and counts, the bins and
\* their order, min_frequency and the capacity as they were.
QueriesSideEffectFree ==
    [][lastOp'.op \in {"contains", "len", "is_empty", "iter", "peek_lfu_key"} =>
           UNCHANGED <<values, frequency_bin, capacity, min_frequency>>]_vars

\* peek_lfu_key has returned a key, and the key is still at the front of the
\* bin at min_frequency, with another key behind it.
QueriesSideEffectFreeWitness ==
    /\ lastOp.op = "peek_lfu_key" /\ lastOp.ret # None
    /\ Len(frequency_bin[min_frequency]) = 2
    /\ Head(frequency_bin[min_frequency]) = lastOp.ret[1]

\* C15 - Construction: with_capacity(0) panics and gives no cache;
\* with_capacity(n), n >= 1, gives an empty cache (len() = 0, is_empty())
\* of capacity n, and no call changes the capacity.
ConstructionContract ==
    /\ lastOp.op = "with_capacity" /\
       IF lastOp.args[1] = 0 THEN panicked
       ELSE /\ ~panicked
            /\ capacity = lastOp.args[1]
            /\ CacheLen(self) = 0
            /\ IsEmpty(self)
    /\ [][capacity' = capacity]_vars

\* with_capacity(0) has panicked.
ConstructionContractWitness ==
    /\ lastOp.op = "with_capacity" /\ lastOp.args = <<0>>
    /\ panicked

\* C16 - Iteration covers exactly the live entries: iter() and the consuming
\* iteration yield as many pairs as the cache has entries, and the pairs are
\* the (key, current value) of every entry: each once, nothing else.
IterationCoversLive ==
    [][lastOp'.op \in {"iter", "into_iter"} =>
           /\ Len(lastOp'.ret) = Cardinality(DOMAIN values)
           /\ {lastOp'.ret[i] : i \in 1..Len(lastOp'.ret)} =
                  {<<k, values[k].value>> : k \in DOMAIN values}]_vars

\* iter() has yielded two pairs with different values, from a cache in which
\* a key has been bumped to count 2.
IterationCoversLiveWitness ==
    /\ lastOp.op = "iter"
    /\ Len(lastOp.ret) = 2
    /\ lastOp.ret[1][2] # lastOp.ret[2][2]
    /\ \E k \in DOMAIN values : values[k].count = 2

====
